---- MODULE Spec2Model ----
(***************************************************************************)
(* ExecEnv lifecycle (be/src/runtime/exec_env_init.cpp): ExecEnv::_init,   *)
(* init_pipeline_task_scheduler, _init_mem_env, the download-cache         *)
(* components, the metrics hooks and ExecEnv::_destroy.                    *)
(*                                                                         *)
(* One process, one ExecEnv.  A step of the model is one whole call of     *)
(* ExecEnv::init or ExecEnv::destroy by the controlling thread.  The       *)
(* configuration values and MemInfo::mem_limit() are fixed when the        *)
(* process starts; the outcome of each collaborator's init()/start() and   *)
(* of getrlimit() is an input of the call.                                 *)
(***************************************************************************)
EXTENDS Integers, Sequences, FiniteSets, TLC

VARIABLES
    config,          \* the config:: values read by this file
    mem_limit,       \* MemInfo::mem_limit()
    alive,           \* FALSE once exit(-1) has been called
    _is_init,        \* ExecEnv::_is_init
    _store_paths,    \* ExecEnv::_store_paths (sequence of path strings)
    _store_path_map, \* ExecEnv::_store_path_map (path -> 0-based index)
    handles,         \* every owned subsystem pointer: "null", "new", "ok", "failed"
    _serial_download_cache_thread_token, \* 0 = none, else the token's identity
    _download_cache_buf_map,             \* keys of the token -> buffer map
    hooks,           \* hook metrics currently registered
    storage_page_cache, \* StoragePageCache::create_global_cache: calls, last capacity
    segment_loader,     \* SegmentLoader::create_global_instance: calls, last capacity
    chunk_allocator,    \* ChunkAllocator::init_instance: calls, last reservation
    last_op,         \* the last call made: "none", "init", "destroy"
    ret,             \* what the last call returned ("exit": it never returned)
    mem_env_status,  \* what _init_mem_env returned inside the last call, "none" if not run
    trace,           \* the steps the last call performed, in order
    last_rlimit,     \* getrlimit's outcome the last time _init_mem_env asked: -1 or rlim_cur
    init_count,      \* number of init calls that got past the _is_init guard
    constructions,   \* of those, the ones since the last destroy call
    halving_loop     \* the loop of lines 190-192 run step by step: its position,
                     \* storage_cache_limit and is_percent

vars == <<config, mem_limit, alive, _is_init, _store_paths, _store_path_map, handles,
          _serial_download_cache_thread_token, _download_cache_buf_map, hooks,
          storage_page_cache, segment_loader, chunk_allocator,
          last_op, ret, mem_env_status, trace, last_rlimit, init_count, constructions,
          halving_loop>>

\* The state of the environment proper: everything but the record of the last call.
env_vars == <<alive, _is_init, _store_paths, _store_path_map, handles,
              _serial_download_cache_thread_token, _download_cache_buf_map, hooks,
              storage_page_cache, segment_loader, chunk_allocator>>

-----------------------------------------------------------------------------
(* Bounds *)

\* init calls that get past the guard, in one run of the process
MaxInits == 2
\* length of a store-path list
MaxPaths == 2

-----------------------------------------------------------------------------
(* Generic helpers *)

Range(s) == {s[i] : i \in DOMAIN s}

SeqsUpTo(S, n) == UNION {[1..k -> S] : k \in 0..n}

\* C++ integer division: truncates toward zero
CppDiv(a, b) ==
    IF a >= 0 THEN a \div b ELSE -((-a) \div b)

-----------------------------------------------------------------------------
(* Input domains *)

\* store-path strings (StorePath::path)
Paths == {"/d1", "/d2"}

StorePathLists == SeqsUpTo(Paths, MaxPaths)

\* config::min_file_descriptor_number
MinFileDescriptorNumbers == {60000}

\* getrlimit(RLIMIT_NOFILE): it fails (-1), or it gives rlim_cur
RlimitOutcomes == {-1, 1025, 3000}

\* The configurations and memory limits of the lifecycle specification: one memory
\* spec each, and each of the two power-of-two checks passing or failing (with
\* min_buffer_size rejected, min_chunk_reserved_bytes is never read).
Configs ==
    { c \in [ storage_page_cache_limit   : { <<"2","5","0","0">> },
              chunk_reserved_bytes_limit : { <<"1","3","0">> },
              min_buffer_size            : {96, 128},
              min_chunk_reserved_bytes   : {64, 96},
              min_file_descriptor_number : MinFileDescriptorNumbers ] :
        c.min_buffer_size = 128 \/ c.min_chunk_reserved_bytes = 64 }

MemLimits == {1000}

\* The configurations and memory limits of the budget specification: absolute and
\* percentage page-cache specs (a string, as its characters) against small and
\* large limits, and chunk reservations below, at and above the granularity.
BudgetConfigs ==
    [ storage_page_cache_limit   :
          { <<"0">>, <<"1">>, <<"3">>, <<"6">>, <<"7","0","0">>, <<"2","5","0","0">>,
            <<"-","4">>, <<"5","0","%">>, <<"8","0","%">>, <<"1","5","0","%">> },
      chunk_reserved_bytes_limit : { <<"0">>, <<"5">>, <<"1","3","0">>, <<"1","0","%">> },
      min_buffer_size            : {96, 128},
      min_chunk_reserved_bytes   : {1, 2, 64, 96},
      min_file_descriptor_number : MinFileDescriptorNumbers ]

BudgetMemLimits == {0, 1, 5, 1000}

\* The collaborator calls of _init and _init_mem_env that can come back with an error.
FailPoints ==
    { "_pipeline_task_scheduler.start", "_result_mgr.init", "_cgroups_mgr.init_cgroups",
      "_load_path_mgr.init", "_broker_mgr.init", "_small_file_mgr.init",
      "_scanner_scheduler.init", "_tmp_file_mgr.init", "_block_spill_mgr.init",
      "_load_channel_mgr.init" }

\* The sets of calls that fail within one init call: none, any single one, and two
\* pairs in which the second failure comes after a first one that did not stop init.
FailSets ==
    {{}} \cup {{p} : p \in FailPoints}
         \cup { {"_result_mgr.init", "_broker_mgr.init"},
                {"_tmp_file_mgr.init", "_block_spill_mgr.init"} }

\* Hook metrics declared at the top of the file
HookMetrics ==
    { "scanner_thread_pool_queue_size", "send_batch_thread_pool_thread_num",
      "send_batch_thread_pool_queue_size", "download_cache_thread_pool_thread_num",
      "download_cache_thread_pool_queue_size" }

\* Every subsystem pointer the file assigns
Subsystems ==
    { "_external_scan_context_mgr", "_vstream_mgr", "_result_mgr", "_result_queue_mgr",
      "_backend_client_cache", "_frontend_client_cache", "_broker_client_cache",
      "_thread_mgr", "_send_batch_thread_pool", "_download_cache_thread_pool",
      "_pipeline_task_scheduler", "_scanner_scheduler", "_cgroups_mgr", "_fragment_mgr",
      "_result_cache", "_master_info", "_load_path_mgr", "_tmp_file_mgr", "_bfd_parser",
      "_broker_mgr", "_load_channel_mgr", "_load_stream_mgr", "_new_load_stream_mgr",
      "_internal_client_cache", "_function_client_cache", "_stream_load_executor",
      "_routine_load_task_executor", "_small_file_mgr", "_storage_policy_mgr",
      "_block_spill_mgr", "_heartbeat_flags", "_orphan_mem_tracker" }

-----------------------------------------------------------------------------
(* Memory-spec resolution and the budget arithmetic *)

DigitValue(c) ==
    CASE c = "0" -> 0 [] c = "1" -> 1 [] c = "2" -> 2 [] c = "3" -> 3 [] c = "4" -> 4
      [] c = "5" -> 5 [] c = "6" -> 6 [] c = "7" -> 7 [] c = "8" -> 8 [] c = "9" -> 9

RECURSIVE ParseDigits(_)
ParseDigits(s) ==
    IF s = <<>> THEN 0
    ELSE 10 * ParseDigits(SubSeq(s, 1, Len(s) - 1)) + DigitValue(s[Len(s)])

ParseInt(s) ==
    IF s # <<>> /\ s[1] = "-" THEN -ParseDigits(Tail(s)) ELSE ParseDigits(s)

\* ParseUtil::parse_mem_spec: a bare integer is a byte count; a trailing '%' is a
\* percentage of the parent limit.  Gives the byte count and the is_percent flag.
parse_mem_spec(mem_spec_str, parent_limit) ==
    IF mem_spec_str # <<>> /\ mem_spec_str[Len(mem_spec_str)] = "%"
    THEN [ bytes |-> CppDiv(ParseInt(SubSeq(mem_spec_str, 1, Len(mem_spec_str) - 1))
                              * parent_limit, 100),
           is_percent |-> TRUE ]
    ELSE [ bytes |-> ParseInt(mem_spec_str), is_percent |-> FALSE ]

\* BitUtil::IsPowerOf2, for the positive values the configuration takes here
RECURSIVE IsPowerOf2(_)
IsPowerOf2(value) ==
    IF value <= 1 THEN value = 1
    ELSE value % 2 = 0 /\ IsPowerOf2(value \div 2)

\* BitUtil::RoundDown
RoundDown(value, factor) == CppDiv(value, factor) * factor

\* while (!is_percent && storage_cache_limit > MemInfo::mem_limit() / 2)
\*     storage_cache_limit = storage_cache_limit / 2;
\* The values storage_cache_limit takes, the initial one first.
RECURSIVE HalvingSteps(_, _, _)
HalvingSteps(storage_cache_limit, is_percent, limit) ==
    IF ~is_percent /\ storage_cache_limit > CppDiv(limit, 2)
    THEN <<storage_cache_limit>>
            \o HalvingSteps(CppDiv(storage_cache_limit, 2), is_percent, limit)
    ELSE <<storage_cache_limit>>

\* Faulty variant: one halving (an if where the code has a while)
StorageCacheLimit_once(storage_cache_limit, is_percent, limit) ==
    IF ~is_percent /\ storage_cache_limit > CppDiv(limit, 2)
    THEN CppDiv(storage_cache_limit, 2)
    ELSE storage_cache_limit

\* Faulty variant: the loop compares against the limit, not against half of it
RECURSIVE StorageCacheLimit_limit(_, _, _)
StorageCacheLimit_limit(storage_cache_limit, is_percent, limit) ==
    IF ~is_percent /\ storage_cache_limit > limit
    THEN StorageCacheLimit_limit(CppDiv(storage_cache_limit, 2), is_percent, limit)
    ELSE storage_cache_limit

\* The value of storage_cache_limit when the loop is left
StorageCacheLimit(storage_cache_limit, is_percent, limit) ==
    LET steps == HalvingSteps(storage_cache_limit, is_percent, limit)
    IN  steps[Len(steps)]

\* uint64_t segment_cache_capacity = fd_number / 3 * 2, fd_number from getrlimit or,
\* when it failed, config::min_file_descriptor_number
\* Faulty variant: the segment cache capacity without the fallback of lines 203-205
SegmentCacheCapacity_noFallback(rlimit, min_file_descriptor_number) ==
    (rlimit \div 3) * 2

SegmentCacheCapacity(rlimit, min_file_descriptor_number) ==
    LET fd_number == IF rlimit = -1 THEN min_file_descriptor_number ELSE rlimit
    IN  (fd_number \div 3) * 2

-----------------------------------------------------------------------------
(* Store paths *)

\* for (int i = 0; i < store_paths.size(); i++) _store_path_map[store_paths[i].path] = i;
\* applied to the map as it stands, for the entries from position k (1-based) on.
RECURSIVE StorePathMapFrom(_, _, _)
StorePathMapFrom(map, store_paths, k) ==
    IF k > Len(store_paths) THEN map
    ELSE LET path == store_paths[k]
             next == [p \in DOMAIN map \cup {path} |->
                         IF p = path THEN k - 1 ELSE map[p]]
         IN  StorePathMapFrom(next, store_paths, k + 1)

\* Faulty variant: an entry already in the map is kept (emplace instead of operator[])
RECURSIVE StorePathMapFrom_emplace(_, _, _)
StorePathMapFrom_emplace(map, store_paths, k) ==
    IF k > Len(store_paths) THEN map
    ELSE LET path == store_paths[k]
             next == [p \in DOMAIN map \cup {path} |->
                         IF p \in DOMAIN map THEN map[p] ELSE k - 1]
         IN  StorePathMapFrom_emplace(next, store_paths, k + 1)

StorePathMap_emplace(map, store_paths) == StorePathMapFrom_emplace(map, store_paths, 1)

StorePathMap(map, store_paths) == StorePathMapFrom(map, store_paths, 1)


-----------------------------------------------------------------------------
(* The environment as one value, and the pieces of _init *)

\* h with the pointers in names (all in DOMAIN h) given this status
Mark(h, names, status) ==
    [n \in names |-> status] @@ h

\* Status of a collaborator call: OK unless it is among the calls that fail now
CallStatus(point, fails) == IF point \in fails THEN point ELSE "OK"

HandleAfter(point, fails) == IF point \in fails THEN "failed" ELSE "ok"

Env ==
    [ alive           |-> alive,
      is_init         |-> _is_init,
      store_paths     |-> _store_paths,
      store_path_map  |-> _store_path_map,
      handles         |-> handles,
      token           |-> _serial_download_cache_thread_token,
      buf_map         |-> _download_cache_buf_map,
      hooks           |-> hooks,
      page_cache      |-> storage_page_cache,
      segment_loader  |-> segment_loader,
      chunk_allocator |-> chunk_allocator,
      ret             |-> ret,
      mem_env_status  |-> mem_env_status,
      trace           |-> trace,
      rlimit          |-> last_rlimit ]

\* _init, lines 90-103: the dependency-free subsystems and the batch-send pool
ConstructedFirst ==
    { "_external_scan_context_mgr", "_vstream_mgr", "_result_mgr", "_result_queue_mgr",
      "_backend_client_cache", "_frontend_client_cache", "_broker_client_cache",
      "_thread_mgr", "_send_batch_thread_pool" }

\* _init, lines 108-128: the scanner scheduler and the remaining managers
ConstructedAfterPipeline ==
    { "_scanner_scheduler", "_cgroups_mgr", "_fragment_mgr", "_result_cache",
      "_master_info", "_load_path_mgr", "_tmp_file_mgr", "_bfd_parser", "_broker_mgr",
      "_load_channel_mgr", "_load_stream_mgr", "_new_load_stream_mgr",
      "_internal_client_cache", "_function_client_cache", "_stream_load_executor",
      "_routine_load_task_executor", "_small_file_mgr", "_storage_policy_mgr",
      "_block_spill_mgr" }

\* ExecEnv::init_download_cache_required_components with init_download_cache_buf:
\* the pool, a new serial token, and a zeroed buffer stored under that token.
init_download_cache_required_components(e, new_token) ==
    [e EXCEPT !.handles = Mark(@, {"_download_cache_thread_pool"}, "new"),
              !.token   = new_token,
              !.buf_map = @ \cup {new_token},
              !.trace   = @ \o <<"init_download_cache_required_components">>]

\* Faulty variant: a start() failure deletes what the call had constructed
init_pipeline_task_scheduler_rollback(e, fails) ==
    IF "_pipeline_task_scheduler.start" \in fails
    THEN [e EXCEPT !.handles = Mark(@, ConstructedFirst \cup
                                       {"_download_cache_thread_pool",
                                        "_pipeline_task_scheduler"}, "null"),
                   !.ret     = "_pipeline_task_scheduler.start",
                   !.trace   = @ \o <<"init_pipeline_task_scheduler">>]
    ELSE [e EXCEPT !.handles = Mark(@, {"_pipeline_task_scheduler"}, "ok"),
                   !.ret     = "OK",
                   !.trace   = @ \o <<"init_pipeline_task_scheduler">>]

\* Faulty variant: the Status of start() is dropped
init_pipeline_task_scheduler_dropped(e, fails) ==
    [e EXCEPT !.handles = Mark(@, {"_pipeline_task_scheduler"},
                               HandleAfter("_pipeline_task_scheduler.start", fails)),
              !.ret     = "OK",
              !.trace   = @ \o <<"init_pipeline_task_scheduler">>]

\* ExecEnv::init_pipeline_task_scheduler: construct, then RETURN_IF_ERROR(start())
init_pipeline_task_scheduler(e, fails) ==
    [e EXCEPT !.handles = Mark(@, {"_pipeline_task_scheduler"},
                               HandleAfter("_pipeline_task_scheduler.start", fails)),
              !.ret     = CallStatus("_pipeline_task_scheduler.start", fails),
              !.trace   = @ \o <<"init_pipeline_task_scheduler">>]

\* Faulty variant: the scanner pool's gauge is registered as well
_register_metrics_withScanner(registered) ==
    registered \cup { "scanner_thread_pool_queue_size",
                      "send_batch_thread_pool_thread_num",
                      "send_batch_thread_pool_queue_size",
                      "download_cache_thread_pool_thread_num",
                      "download_cache_thread_pool_queue_size" }

\* ExecEnv::_register_metrics
_register_metrics(registered) ==
    registered \cup { "send_batch_thread_pool_thread_num",
                      "send_batch_thread_pool_queue_size",
                      "download_cache_thread_pool_thread_num",
                      "download_cache_thread_pool_queue_size" }

\* ExecEnv::_deregister_metrics
_deregister_metrics(registered) ==
    registered \ { "scanner_thread_pool_queue_size",
                   "send_batch_thread_pool_thread_num",
                   "send_batch_thread_pool_queue_size",
                   "download_cache_thread_pool_thread_num",
                   "download_cache_thread_pool_queue_size" }

\* A call of one of the global factories with this capacity
Created(global, capacity) ==
    [calls |-> global.calls + 1, capacity |-> capacity]

\* One secondary init whose Status the caller drops: the handle records the outcome
SecondaryInit(e, handle, point, fails) ==
    [e EXCEPT !.handles = Mark(@, {handle}, HandleAfter(point, fails)),
              !.trace   = @ \o <<point>>]

\* Faulty variant: the chunk allocator without the rounding of line 230
ChunkReservedBytesLimit_unrounded(cfg, limit) ==
    parse_mem_spec(cfg.chunk_reserved_bytes_limit, limit).bytes

\* lines 227-231: the resolved chunk_reserved_bytes_limit, rounded down to a multiple
\* of min_chunk_reserved_bytes
ChunkReservedBytesLimit(cfg, limit) ==
    RoundDown(parse_mem_spec(cfg.chunk_reserved_bytes_limit, limit).bytes,
              cfg.min_chunk_reserved_bytes)

\* ExecEnv::_init_mem_env.  The result's mem_env_status is the Status it returns.
_init_mem_env(e, cfg, limit, fails, rlimit) ==
    LET e1 == [e EXCEPT !.handles = Mark(@, {"_orphan_mem_tracker"}, "new"),
                        !.trace   = @ \o <<"_init_mem_env">>]
        parsed == parse_mem_spec(cfg.storage_page_cache_limit, limit)
        e3 == [e1 EXCEPT !.page_cache =
                             Created(@, StorageCacheLimit(parsed.bytes,
                                                          parsed.is_percent, limit)),
                         !.segment_loader =
                             Created(@, SegmentCacheCapacity(rlimit,
                                            cfg.min_file_descriptor_number)),
                         !.rlimit = rlimit,
                         !.trace = @ \o <<"create_global_cache",
                                          "create_global_instance">>]
        e4 == SecondaryInit(e3, "_tmp_file_mgr", "_tmp_file_mgr.init", fails)
        e5 == SecondaryInit(e4, "_block_spill_mgr", "_block_spill_mgr.init", fails)
        e6 == [e5 EXCEPT !.chunk_allocator =
                             Created(@, ChunkReservedBytesLimit(cfg, limit)),
                         !.trace = @ \o <<"init_instance">>]
    IN  IF ~IsPowerOf2(cfg.min_buffer_size)
        THEN [e1 EXCEPT !.mem_env_status = "min_buffer_size"]
        ELSE IF "_tmp_file_mgr.init" \in fails
        THEN [e4 EXCEPT !.mem_env_status = "_tmp_file_mgr.init"]
        ELSE IF "_block_spill_mgr.init" \in fails
        THEN [e5 EXCEPT !.mem_env_status = "_block_spill_mgr.init"]
        ELSE IF ~IsPowerOf2(cfg.min_chunk_reserved_bytes)
        THEN [e5 EXCEPT !.mem_env_status = "min_chunk_reserved_bytes"]
        ELSE [e6 EXCEPT !.mem_env_status = "OK"]


-----------------------------------------------------------------------------
(* ExecEnv::_init *)

\* Faulty variant: no guard at all
AlreadyInit_never(e) == FALSE

\* Faulty variant: the guard looks at a constructed subsystem instead of the flag
AlreadyInit_constructed(e) == e.is_init \/ e.handles["_thread_mgr"] # "null"

\* if (_is_init) return Status::OK();
AlreadyInit(e) == e.is_init

\* ExecEnv::_init(store_paths) on environment e.  fails: the collaborator calls that
\* come back with an error in this call; rlimit: what getrlimit gives; new_token: the
\* identity of the serial token the download-cache pool hands out.
\* Faulty variant: the failure of _load_path_mgr->init() is returned to the caller
LoadPathMgrInitFailed_returned(e) ==
    [e EXCEPT !.ret = "_load_path_mgr.init"]

\* lines 136-139: if (!status.ok()) { LOG(ERROR) ...; exit(-1); }
LoadPathMgrInitFailed(e) ==
    [e EXCEPT !.alive = FALSE, !.ret = "exit", !.trace = @ \o <<"exit">>]

_init(e, store_paths, cfg, limit, fails, rlimit, new_token) ==
    LET e0 == [e EXCEPT !.ret = "OK", !.mem_env_status = "none", !.trace = <<>>]
        a  == [e0 EXCEPT !.store_paths    = store_paths,
                         !.store_path_map = StorePathMap(@, store_paths),
                         !.handles        = Mark(@, ConstructedFirst, "new"),
                         !.trace          = <<"_store_paths", "construct">>]
        b  == init_download_cache_required_components(a, new_token)
        c  == init_pipeline_task_scheduler(b, fails)
        d  == [c EXCEPT !.handles = Mark(@, ConstructedAfterPipeline, "new"),
                        !.trace   = @ \o <<"construct managers", "init_metrics">>]
        f  == SecondaryInit(d, "_result_mgr", "_result_mgr.init", fails)
        g  == SecondaryInit(f, "_cgroups_mgr", "_cgroups_mgr.init_cgroups", fails)
        h  == SecondaryInit(g, "_load_path_mgr", "_load_path_mgr.init", fails)
        i  == SecondaryInit(h, "_broker_mgr", "_broker_mgr.init", fails)
        j  == SecondaryInit(i, "_small_file_mgr", "_small_file_mgr.init", fails)
        k  == SecondaryInit(j, "_scanner_scheduler", "_scanner_scheduler.init", fails)
        \* _init_mem_env();  -- the Status it returns is not looked at
        m  == _init_mem_env(k, cfg, limit, fails, rlimit)
        n  == SecondaryInit(m, "_load_channel_mgr", "_load_channel_mgr.init", fails)
        o  == [n EXCEPT !.handles = Mark(@, {"_heartbeat_flags"}, "new"),
                        !.hooks   = _register_metrics(@),
                        !.is_init = TRUE,
                        !.ret     = "OK",
                        !.trace   = @ \o <<"_heartbeat_flags", "_register_metrics",
                                           "_is_init = true">>]
    IN  IF AlreadyInit(e) THEN e0
        ELSE IF c.ret # "OK" THEN c
        ELSE IF "_load_path_mgr.init" \in fails
        THEN LoadPathMgrInitFailed(h)
        ELSE IF "_load_channel_mgr.init" \in fails
        THEN [n EXCEPT !.ret = "_load_channel_mgr.init"]
        ELSE o

-----------------------------------------------------------------------------
(* ExecEnv::_destroy *)

\* Faulty variant: no guard at all
NotInit_never(e) == FALSE

\* if (!_is_init) return;
NotInit(e) == ~e.is_init

\* Faulty variant: the last two deletions swapped
DestroyList_swapped ==
    << "_internal_client_cache", "_function_client_cache", "_load_stream_mgr",
       "_load_channel_mgr", "_broker_mgr", "_bfd_parser", "_tmp_file_mgr",
       "_load_path_mgr", "_master_info", "_fragment_mgr", "_pipeline_task_scheduler",
       "_cgroups_mgr", "_thread_mgr", "_broker_client_cache", "_frontend_client_cache",
       "_backend_client_cache", "_result_mgr", "_result_queue_mgr",
       "_stream_load_executor", "_routine_load_task_executor",
       "_external_scan_context_mgr", "_scanner_scheduler", "_heartbeat_flags" >>

\* Faulty variant: the result cache is deleted too
DestroyList_withResultCache ==
    << "_internal_client_cache", "_function_client_cache", "_load_stream_mgr",
       "_load_channel_mgr", "_broker_mgr", "_bfd_parser", "_tmp_file_mgr",
       "_load_path_mgr", "_master_info", "_fragment_mgr", "_pipeline_task_scheduler",
       "_cgroups_mgr", "_thread_mgr", "_broker_client_cache", "_frontend_client_cache",
       "_backend_client_cache", "_result_mgr", "_result_queue_mgr",
       "_stream_load_executor", "_routine_load_task_executor",
       "_external_scan_context_mgr", "_heartbeat_flags", "_scanner_scheduler",
       "_result_cache" >>

\* The SAFE_DELETE lines of _destroy, in order
DestroyList ==
    << "_internal_client_cache", "_function_client_cache", "_load_stream_mgr",
       "_load_channel_mgr", "_broker_mgr", "_bfd_parser", "_tmp_file_mgr",
       "_load_path_mgr", "_master_info", "_fragment_mgr", "_pipeline_task_scheduler",
       "_cgroups_mgr", "_thread_mgr", "_broker_client_cache", "_frontend_client_cache",
       "_backend_client_cache", "_result_mgr", "_result_queue_mgr",
       "_stream_load_executor", "_routine_load_task_executor",
       "_external_scan_context_mgr", "_heartbeat_flags", "_scanner_scheduler" >>

\* SAFE_DELETE(ptr): delete and null the pointer unless it is null already
SAFE_DELETE(e, ptr) ==
    IF e.handles[ptr] = "null" THEN e
    ELSE [e EXCEPT !.handles = Mark(@, {ptr}, "null"), !.trace = @ \o <<ptr>>]

RECURSIVE SafeDeleteAll(_, _)
SafeDeleteAll(e, list) ==
    IF list = <<>> THEN e
    ELSE SafeDeleteAll(SAFE_DELETE(e, Head(list)), Tail(list))

_destroy(e) ==
    LET e0 == [e EXCEPT !.ret = "void", !.mem_env_status = "none", !.trace = <<>>]
        a  == [e0 EXCEPT !.hooks = _deregister_metrics(@),
                         !.trace = <<"_deregister_metrics">>]
        b  == SafeDeleteAll(a, DestroyList)
    IN  IF NotInit(e) THEN e0
        ELSE [b EXCEPT !.is_init = FALSE, !.trace = @ \o <<"_is_init = false">>]

-----------------------------------------------------------------------------
(* The state machine *)

NoGlobal == [calls |-> 0, capacity |-> 0]

\* The process before the first call: nothing constructed, the flag clear
ProcessStart(configs, limits) ==
    /\ config \in configs
    /\ mem_limit \in limits
    /\ alive = TRUE
    /\ _is_init = FALSE
    /\ _store_paths = <<>>
    /\ _store_path_map = [p \in {} |-> 0]
    /\ handles = [n \in Subsystems |-> "null"]
    /\ _serial_download_cache_thread_token = 0
    /\ _download_cache_buf_map = {}
    /\ hooks = {}
    /\ storage_page_cache = NoGlobal
    /\ segment_loader = NoGlobal
    /\ chunk_allocator = NoGlobal
    /\ last_op = "none"
    /\ ret = "none"
    /\ mem_env_status = "none"
    /\ trace = <<>>
    /\ last_rlimit = 0
    /\ init_count = 0
    /\ constructions = 0

\* the halving loop is not being stepped through
NotInLoop == [pc |-> "none", storage_cache_limit |-> 0, is_percent |-> FALSE]

InitWith(configs, limits) ==
    /\ ProcessStart(configs, limits)
    /\ halving_loop = NotInLoop

Init == InitWith(Configs, MemLimits)

BudgetInit == InitWith(BudgetConfigs, BudgetMemLimits)

Assign(e) ==
    /\ alive' = e.alive
    /\ _is_init' = e.is_init
    /\ _store_paths' = e.store_paths
    /\ _store_path_map' = e.store_path_map
    /\ handles' = e.handles
    /\ _serial_download_cache_thread_token' = e.token
    /\ _download_cache_buf_map' = e.buf_map
    /\ hooks' = e.hooks
    /\ storage_page_cache' = e.page_cache
    /\ segment_loader' = e.segment_loader
    /\ chunk_allocator' = e.chunk_allocator
    /\ ret' = e.ret
    /\ mem_env_status' = e.mem_env_status
    /\ trace' = e.trace
    /\ last_rlimit' = e.rlimit

\* ExecEnv::init(env, store_paths) with the argument drawn from lists, the set of
\* failing collaborator calls from failsets and getrlimit's outcome from rlimits.
\* The collaborators and getrlimit are reached only by a call that gets past the guard.
InitCall(lists, failsets, rlimits) ==
    /\ alive
    /\ AlreadyInit(Env) \/ init_count < MaxInits
    /\ \E in \in (IF AlreadyInit(Env)
                  THEN [store_paths : lists, fails : {{}}, rlimit : {-1}]
                  ELSE [store_paths : lists, fails : failsets, rlimit : rlimits]) :
       \E e \in {_init(Env, in.store_paths, config, mem_limit, in.fails, in.rlimit,
                       init_count + 1)} :
       \E worked \in {e.trace # <<>>} :
          /\ Assign(e)
          /\ last_op' = "init"
          /\ init_count' = IF worked THEN init_count + 1 ELSE init_count
          /\ constructions' = IF worked THEN constructions + 1 ELSE constructions
    /\ UNCHANGED <<config, mem_limit, halving_loop>>

\* Any store-path list and any failure; getrlimit succeeds
ExecEnv_init == InitCall(StorePathLists, FailSets, {3000})

\* One store path, every collaborator succeeding; getrlimit succeeds or fails
ExecEnv_init_plain == InitCall({<<"/d1">>}, {{}}, RlimitOutcomes)

\* ExecEnv::destroy(env)
ExecEnv_destroy ==
    /\ alive
    /\ \E e \in {_destroy(Env)} : Assign(e)
    /\ last_op' = "destroy"
    /\ constructions' = 0
    /\ UNCHANGED <<config, mem_limit, init_count, halving_loop>>

Next == ExecEnv_init \/ ExecEnv_destroy

Spec == Init /\ [][Next]_vars

\* The budget planner over the wide range of configurations
BudgetNext == ExecEnv_init_plain \/ ExecEnv_destroy

BudgetSpec == BudgetInit /\ [][BudgetNext]_vars

-----------------------------------------------------------------------------
(* The loop of _init_mem_env, lines 190-192, one iteration per step *)

\* The page-cache specs of the budget specification, the rest of the configuration
\* fixed
HalvingConfigs ==
    { c \in BudgetConfigs : /\ c.chunk_reserved_bytes_limit = <<"0">>
                            /\ c.min_buffer_size = 128
                            /\ c.min_chunk_reserved_bytes = 64 }

\* Faulty variant: the loop goes on while the value is at least half of the limit
LoopCondition_atLeast(storage_cache_limit, is_percent, limit) ==
    ~is_percent /\ storage_cache_limit >= CppDiv(limit, 2)

\* line 190: !is_percent && storage_cache_limit > MemInfo::mem_limit() / 2
LoopCondition(storage_cache_limit, is_percent, limit) ==
    ~is_percent /\ storage_cache_limit > CppDiv(limit, 2)

\* lines 187-189: storage_cache_limit and is_percent as parse_mem_spec gives them,
\* control at the head of the loop
HalvingInit ==
    /\ ProcessStart(HalvingConfigs, BudgetMemLimits)
    /\ \E parsed \in {parse_mem_spec(config.storage_page_cache_limit, mem_limit)} :
          halving_loop = [pc |-> "while",
                          storage_cache_limit |-> parsed.bytes,
                          is_percent |-> parsed.is_percent]

\* everything but the loop
exec_vars == <<config, mem_limit, alive, _is_init, _store_paths, _store_path_map,
               handles, _serial_download_cache_thread_token, _download_cache_buf_map,
               hooks, storage_page_cache, segment_loader, chunk_allocator,
               last_op, ret, mem_env_status, trace, last_rlimit, init_count,
               constructions>>

\* line 191: the condition held, storage_cache_limit = storage_cache_limit / 2
LoopHalve ==
    /\ halving_loop.pc = "while"
    /\ LoopCondition(halving_loop.storage_cache_limit, halving_loop.is_percent,
                     mem_limit)
    /\ halving_loop' = [halving_loop EXCEPT
                            !.storage_cache_limit = CppDiv(@, 2)]
    /\ UNCHANGED exec_vars

\* the condition failed: control leaves the loop for line 193
LoopExit ==
    /\ halving_loop.pc = "while"
    /\ ~LoopCondition(halving_loop.storage_cache_limit, halving_loop.is_percent,
                      mem_limit)
    /\ halving_loop' = [halving_loop EXCEPT !.pc = "done"]
    /\ UNCHANGED exec_vars

HalvingNext == LoopHalve \/ LoopExit

\* The thread running _init_mem_env keeps running: a step that can be taken is taken
HalvingSpec == HalvingInit /\ [][HalvingNext]_vars /\ WF_vars(HalvingNext)


-----------------------------------------------------------------------------
(* Properties *)

\* C1: an init call made while the initialized flag is set returns success and
\* leaves the whole environment unchanged (store paths, path map, every handle,
\* both pools, the buffer map, the metrics hooks and the global singletons).
C1_InitWhenInitializedChangesNothing ==
    [][(_is_init /\ last_op' = "init") => (ret' = "OK" /\ UNCHANGED env_vars)]_vars

\* C1 case: an init call found the flag set and did nothing
C1_Witness ==
    /\ last_op = "init" /\ _is_init /\ trace = <<>> /\ ret = "OK"
    /\ constructions = 1

\* C2 as stated: in a run of init calls with no destroy in between, construction is
\* performed exactly once, whatever the first call returned.
C2_ConstructionExactlyOnce ==
    last_op = "init" => constructions = 1

\* C2, amended: in a run of init calls with no destroy in between, a call that
\* follows a successful call returns success and constructs nothing, and a call that
\* follows a failed call performs the construction again.
C2_ConstructionUntilSuccess ==
    [][(last_op = "init" /\ last_op' = "init") =>
          IF ret = "OK"
          THEN ret' = "OK" /\ constructions' = constructions /\ trace' = <<>>
               /\ UNCHANGED env_vars
          ELSE constructions' = constructions + 1 /\ trace' # <<>>]_vars

\* C2 case: a failed init, an init that constructed again and succeeded, then an
\* init that did nothing
C2_Witness ==
    last_op = "init" /\ constructions = 2 /\ trace = <<>> /\ ret = "OK"

\* C3: destroy called while the flag is clear changes nothing: no hook is
\* deregistered, no handle is released, the flag stays clear.
C3_DestroyWhenNotInitializedChangesNothing ==
    [][(~_is_init /\ last_op' = "destroy") => UNCHANGED env_vars]_vars

\* C3 case: destroy after a failed init, with every subsystem still constructed
C3_Witness ==
    /\ last_op = "destroy" /\ trace = <<>> /\ ~_is_init
    /\ handles["_thread_mgr"] = "new" /\ handles["_load_channel_mgr"] = "failed"

\* 1-based positions of path in the list
Positions(list, path) == {i \in DOMAIN list : list[i] = path}

Min(S) == CHOOSE x \in S : \A y \in S : x <= y

Max(S) == CHOOSE x \in S : \A y \in S : x >= y

\* C4 as stated: after the first init, each path of the list maps to the position
\* of its first occurrence.
C4_FirstOccurrenceWins ==
    init_count = 1 =>
        \A p \in Range(_store_paths) :
            p \in DOMAIN _store_path_map
            /\ _store_path_map[p] = Min(Positions(_store_paths, p)) - 1

\* C4, amended: after the first init, the map's keys are the paths of the list and
\* each path maps to the position of its last occurrence.
C4_LastOccurrenceWins ==
    init_count = 1 =>
        /\ DOMAIN _store_path_map = Range(_store_paths)
        /\ \A p \in Range(_store_paths) :
              _store_path_map[p] = Max(Positions(_store_paths, p)) - 1

\* C4 case: the first init got a list with a repeated path
C4_Witness ==
    /\ init_count = 1
    /\ \E p \in Range(_store_paths) : Cardinality(Positions(_store_paths, p)) > 1

\* C5: when the memory-environment initialization fails, init returns that error,
\* runs none of the later steps and does not set the flag.
C5_MemEnvFailureIsReturned ==
    (last_op = "init" /\ mem_env_status \notin {"none", "OK"}) =>
        /\ ret = mem_env_status
        /\ ~_is_init
        /\ Range(trace) \cap {"_load_channel_mgr.init", "_heartbeat_flags",
                              "_register_metrics", "_is_init = true"} = {}

\* The secondary initializations of C6, in the order of the code
SecondaryPoints ==
    << "_result_mgr.init", "_cgroups_mgr.init_cgroups", "_broker_mgr.init",
       "_small_file_mgr.init", "_scanner_scheduler.init" >>

SecondaryHandles ==
    << "_result_mgr", "_cgroups_mgr", "_broker_mgr", "_small_file_mgr",
       "_scanner_scheduler" >>

\* C6: the first failure among the five secondary initializations is what init
\* returns, and no later step of init runs.
C6_SecondaryFailureIsReturned ==
    \A i \in DOMAIN SecondaryPoints :
        ( /\ last_op = "init" /\ trace # <<>>
          /\ handles[SecondaryHandles[i]] = "failed"
          /\ \A j \in 1..(i - 1) : handles[SecondaryHandles[j]] # "failed" ) =>
            /\ ret = SecondaryPoints[i]
            /\ ~_is_init
            /\ \A j \in (i + 1)..Len(SecondaryPoints) :
                  SecondaryPoints[j] \notin Range(trace)

\* C7 as stated: what destroy does on an initialized environment, with the new
\* load-stream manager fourth.
C7_DestroyOrderAsStated ==
    (last_op = "destroy" /\ trace # <<>>) =>
        trace = << "_deregister_metrics",
                   "_internal_client_cache", "_function_client_cache",
                   "_load_stream_mgr", "_new_load_stream_mgr", "_broker_mgr",
                   "_bfd_parser", "_tmp_file_mgr", "_load_path_mgr", "_master_info",
                   "_fragment_mgr", "_pipeline_task_scheduler", "_cgroups_mgr",
                   "_thread_mgr", "_broker_client_cache", "_frontend_client_cache",
                   "_backend_client_cache", "_result_mgr", "_result_queue_mgr",
                   "_stream_load_executor", "_routine_load_task_executor",
                   "_external_scan_context_mgr", "_heartbeat_flags",
                   "_scanner_scheduler", "_is_init = false" >>

\* C7, amended: destroy on an initialized environment deregisters the metrics hooks,
\* then releases this sequence, in which the load-channel manager is fourth and the
\* new load-stream manager does not occur (it stays constructed), and clears the
\* flag last.
C7_DestroyOrder ==
    (last_op = "destroy" /\ trace # <<>>) =>
        /\ trace = << "_deregister_metrics",
                      "_internal_client_cache", "_function_client_cache",
                      "_load_stream_mgr", "_load_channel_mgr", "_broker_mgr",
                      "_bfd_parser", "_tmp_file_mgr", "_load_path_mgr", "_master_info",
                      "_fragment_mgr", "_pipeline_task_scheduler", "_cgroups_mgr",
                      "_thread_mgr", "_broker_client_cache", "_frontend_client_cache",
                      "_backend_client_cache", "_result_mgr", "_result_queue_mgr",
                      "_stream_load_executor", "_routine_load_task_executor",
                      "_external_scan_context_mgr", "_heartbeat_flags",
                      "_scanner_scheduler", "_is_init = false" >>
        /\ handles["_new_load_stream_mgr"] # "null"
        /\ hooks = {}
        /\ ~_is_init

\* C7 case: destroy ran on an initialized environment
C7_Witness ==
    last_op = "destroy" /\ trace # <<>> /\ ~_is_init /\ handles["_thread_mgr"] = "null"

\* What C8 lists as never released
NeverReleased ==
    { "_vstream_mgr", "_send_batch_thread_pool", "_download_cache_thread_pool",
      "_result_cache", "_small_file_mgr", "_storage_policy_mgr", "_block_spill_mgr" }

\* C8: destroy leaves the stream manager, both pools, the result cache, the
\* small-file, storage-policy and block-spill managers, the buffer map and the three
\* global singletons as they were.
C8_DestroyKeepsProcessExitManaged ==
    [][last_op' = "destroy" =>
          /\ \A n \in NeverReleased : handles'[n] = handles[n]
          /\ UNCHANGED <<_download_cache_buf_map, storage_page_cache, segment_loader,
                         chunk_allocator>>]_vars

\* C8 case: destroy released the managed subsystems and all of the others exist
C8_Witness ==
    /\ last_op = "destroy" /\ trace # <<>>
    /\ \A n \in NeverReleased : handles[n] # "null"
    /\ _download_cache_buf_map # {}
    /\ storage_page_cache.calls > 0 /\ segment_loader.calls > 0
    /\ chunk_allocator.calls > 0

\* The page-cache spec of the configuration is a percentage
IsPercentSpec == config.storage_page_cache_limit[Len(config.storage_page_cache_limit)] = "%"

\* The byte count an absolute page-cache spec names
AbsoluteSpecValue == ParseInt(config.storage_page_cache_limit)

\* C9: the capacity handed to the page cache is at most half of the memory limit
\* when the spec is absolute, and is the resolved value itself when it is a
\* percentage.
C9_AbsoluteSpecAtMostHalfLimit ==
    storage_page_cache.calls > 0 =>
        IF IsPercentSpec
        THEN storage_page_cache.capacity =
                 parse_mem_spec(config.storage_page_cache_limit, mem_limit).bytes
        ELSE storage_page_cache.capacity <= mem_limit \div 2

\* C9 case: an absolute spec above half of the limit reached the page cache
C9_Witness ==
    /\ storage_page_cache.calls > 0 /\ ~IsPercentSpec
    /\ AbsoluteSpecValue > mem_limit \div 2
    /\ mem_limit > 0

\* C10 as stated: 2500 against a limit of 1000 ends at 625.
C10_HalvingStopsAt625 ==
    ( /\ storage_page_cache.calls > 0
      /\ config.storage_page_cache_limit = <<"2","5","0","0">>
      /\ mem_limit = 1000 ) =>
        storage_page_cache.capacity = 625

\* C10, amended: 2500 against a limit of 1000 goes 2500, 1250, 625, 312 and the
\* capacity handed to the page cache is 312, at most limit/2 = 500.
C10_HalvingStopsAt312 ==
    ( /\ storage_page_cache.calls > 0
      /\ config.storage_page_cache_limit = <<"2","5","0","0">>
      /\ mem_limit = 1000 ) =>
        /\ storage_page_cache.capacity = 312
        /\ HalvingSteps(AbsoluteSpecValue, FALSE, mem_limit) = <<2500, 1250, 625, 312>>

\* C10 case: the page cache was created from 2500 against 1000
C10_Witness ==
    /\ storage_page_cache.calls > 0
    /\ config.storage_page_cache_limit = <<"2","5","0","0">>
    /\ mem_limit = 1000
    /\ storage_page_cache.capacity < 500

\* the chunk_reserved_bytes_limit spec resolved against the memory limit
ResolvedChunkLimit ==
    parse_mem_spec(config.chunk_reserved_bytes_limit, mem_limit).bytes

PowersOfTwo == {1, 2, 4, 8, 16, 32, 64, 128, 256}

\* C11: whenever the chunk allocator is constructed, the granularity is a power of
\* two and the reservation is the largest multiple of it that does not exceed the
\* resolved limit (130 with 64 gives 128); with a granularity that is not a power
\* of two the chunk allocator is never constructed.
C11_ChunkReservationRoundedDown ==
    /\ chunk_allocator.calls > 0 =>
          /\ config.min_chunk_reserved_bytes \in PowersOfTwo
          /\ \E k \in 0..ResolvedChunkLimit :
                chunk_allocator.capacity = k * config.min_chunk_reserved_bytes
          /\ chunk_allocator.capacity <= ResolvedChunkLimit
          /\ ResolvedChunkLimit < chunk_allocator.capacity
                                      + config.min_chunk_reserved_bytes
          /\ ( /\ ResolvedChunkLimit = 130
               /\ config.min_chunk_reserved_bytes = 64 ) =>
                  chunk_allocator.capacity = 128
    /\ config.min_chunk_reserved_bytes \notin PowersOfTwo =>
          chunk_allocator.calls = 0

\* C11 case: a limit that is not a multiple of the granularity reached the chunk
\* allocator
C11_Witness ==
    /\ chunk_allocator.calls > 0
    /\ ResolvedChunkLimit = 130
    /\ config.min_chunk_reserved_bytes = 64
    /\ chunk_allocator.capacity = 128

\* C12: the capacity handed to the segment cache is (d / 3) * 2 in integer
\* arithmetic, d being the soft open-file limit when getrlimit answered and
\* min_file_descriptor_number when it failed; and with getrlimit failing, the
\* memory-environment initialization succeeds whenever both granularities are
\* powers of two (no collaborator fails in this specification).
C12_SegmentCacheCapacity ==
    segment_loader.calls > 0 =>
        /\ last_rlimit # -1 =>
              segment_loader.capacity = (last_rlimit \div 3) * 2
        /\ last_rlimit = -1 =>
              segment_loader.capacity = (config.min_file_descriptor_number \div 3) * 2
        /\ ( /\ last_rlimit = -1
             /\ mem_env_status # "none"
             /\ config.min_buffer_size \in PowersOfTwo
             /\ config.min_chunk_reserved_bytes \in PowersOfTwo ) =>
                mem_env_status = "OK"

\* C12 case: getrlimit failed, and the segment cache was created from the
\* configured minimum by an initialization that succeeded
C12_Witness ==
    /\ segment_loader.calls > 0
    /\ last_rlimit = -1
    /\ segment_loader.capacity = 40000
    /\ mem_env_status = "OK"

\* C13: an init call in which the pipeline task scheduler fails to start returns
\* that failure at once: it ends with init_pipeline_task_scheduler, constructs
\* neither the scanner scheduler nor any later subsystem, attempts no secondary
\* initialization and no memory-environment initialization, creates no global,
\* registers no metrics hook and leaves the flag clear.
C13_PipelineFailureStopsInit ==
    [][ ( /\ last_op' = "init" /\ trace' # <<>>
          /\ handles'["_pipeline_task_scheduler"] = "failed" ) =>
            /\ ret' = "_pipeline_task_scheduler.start"
            /\ trace'[Len(trace')] = "init_pipeline_task_scheduler"
            /\ \A n \in ConstructedAfterPipeline \cup {"_orphan_mem_tracker",
                                                        "_heartbeat_flags"} :
                  handles'[n] = handles[n]
            /\ Range(trace') \cap (FailPoints \cup {"_init_mem_env", "_register_metrics"}) = {}
            /\ handles'["_result_mgr"] = "new"
            /\ mem_env_status' = "none"
            /\ UNCHANGED <<storage_page_cache, segment_loader, chunk_allocator, hooks>>
            /\ hooks' = {}
            /\ ~_is_init'
      ]_vars

\* C13 case: the last call was an init in which the scheduler failed to start, in
\* a process where an earlier init had constructed the later subsystems
C13_Witness ==
    /\ last_op = "init" /\ trace # <<>>
    /\ handles["_pipeline_task_scheduler"] = "failed"
    /\ ret = "_pipeline_task_scheduler.start"
    /\ init_count = 2

\* the steps of _init that follow _load_path_mgr->init()
StepsAfterLoadPathInit ==
    { "_broker_mgr.init", "_small_file_mgr.init", "_scanner_scheduler.init",
      "_init_mem_env", "create_global_cache", "create_global_instance",
      "_tmp_file_mgr.init", "_block_spill_mgr.init", "init_instance",
      "_load_channel_mgr.init", "_heartbeat_flags", "_register_metrics",
      "_is_init = true" }

\* C14: an init call in which the load-path manager fails to initialize ends the
\* process: the call does not return, none of the steps after that initialization
\* runs in it, the flag stays clear, and no call is ever made in a process that
\* has ended.
C14_LoadPathFailureExits ==
    [][ /\ alive
        /\ ( /\ last_op' = "init" /\ trace' # <<>>
              /\ handles'["_load_path_mgr"] = "failed" ) =>
                /\ ~alive'
                /\ ret' = "exit"
                /\ trace'[Len(trace')] = "exit"
                /\ trace'[Len(trace') - 1] = "_load_path_mgr.init"
                /\ Range(trace') \cap StepsAfterLoadPathInit = {}
                /\ mem_env_status' = "none"
                /\ UNCHANGED <<storage_page_cache, segment_loader, chunk_allocator,
                               hooks>>
                /\ ~_is_init'
      ]_vars

\* C14 case: the load-path manager failed to initialize in the last call
C14_Witness ==
    /\ last_op = "init"
    /\ handles["_load_path_mgr"] = "failed"
    /\ ~alive

\* what _init constructs up to and including the pipeline task scheduler
ConstructedUpToPipeline ==
    ConstructedFirst \cup {"_download_cache_thread_pool", "_pipeline_task_scheduler"}

\* C15: an init call that returns an error (the pipeline task scheduler failed to
\* start, or the load-channel manager failed to initialize) rolls nothing back:
\* every subsystem, pool and global constructed before the failing step is still
\* constructed and the download buffer is still stored, the flag is clear, and a
\* destroy call that follows releases none of them.
C15_FailedInitKeepsEverything ==
    [][ /\ ( /\ last_op' = "init" /\ trace' # <<>>
              /\ ret' \notin {"OK", "exit"} ) =>
                /\ ret' \in {"_pipeline_task_scheduler.start", "_load_channel_mgr.init"}
                /\ ~_is_init'
                /\ \A n \in ConstructedUpToPipeline : handles'[n] # "null"
                /\ _serial_download_cache_thread_token' \in _download_cache_buf_map'
                /\ _download_cache_buf_map \subseteq _download_cache_buf_map'
                /\ ret' = "_load_channel_mgr.init" =>
                      /\ \A n \in ConstructedAfterPipeline \cup {"_orphan_mem_tracker"} :
                            handles'[n] # "null"
                      /\ mem_env_status' = "OK" =>
                            /\ storage_page_cache'.calls = storage_page_cache.calls + 1
                            /\ segment_loader'.calls = segment_loader.calls + 1
                            /\ chunk_allocator'.calls = chunk_allocator.calls + 1
        /\ ( /\ last_op = "init" /\ trace # <<>>
              /\ ret \notin {"OK", "exit"}
              /\ last_op' = "destroy" ) =>
                /\ UNCHANGED env_vars
                /\ trace' = <<>>
      ]_vars

\* C15 case: destroy was called right after an init that had returned an error at
\* the pipeline task scheduler, and everything constructed is still there
C15_Witness ==
    /\ last_op = "destroy" /\ trace = <<>>
    /\ handles["_pipeline_task_scheduler"] = "failed"
    /\ \A n \in ConstructedFirst : handles[n] = "new"

\* the four gauges that read the batch-send pool and the download-cache pool
PoolGauges == HookMetrics \ {"scanner_thread_pool_queue_size"}

\* C16: in every reachable state, if one of the four pool gauges is registered
\* then the batch-send pool and the download-cache pool both exist; the
\* scanner-pool gauge is never registered, and deregistering it changes nothing.
C16_GaugesReadLivePools ==
    /\ hooks \subseteq PoolGauges
    /\ hooks # {} =>
          /\ handles["_send_batch_thread_pool"] # "null"
          /\ handles["_download_cache_thread_pool"] # "null"
    /\ "scanner_thread_pool_queue_size" \notin hooks
    /\ _deregister_metrics(hooks) = hooks \ PoolGauges

\* C16 case: the gauges are registered again by a second init, after a destroy
\* that kept both pools
C16_Witness ==
    /\ hooks = PoolGauges
    /\ _is_init
    /\ init_count = 2

C18_InitializedMeansMemEnvReady ==
    _is_init =>
        /\ storage_page_cache.calls > 0
        /\ segment_loader.calls > 0
        /\ chunk_allocator.calls > 0
        /\ handles["_tmp_file_mgr"] = "ok"
        /\ handles["_block_spill_mgr"] = "ok"

\* C19: after every init call that performs work, the keys of the path map are
\* exactly the paths of the recorded store-path list.
C19_PathMapKeysAreCurrentPaths ==
    (last_op = "init" /\ trace # <<>>) =>
        DOMAIN _store_path_map = Range(_store_paths)

\* C20: the halving loop terminates, for every absolute spec value (positive, zero
\* or negative) and every memory limit >= 0, with C++ truncating division in the
\* halving and in limit / 2; it leaves with the value the initialization hands to
\* the page cache.
C20_HalvingLoopTerminates ==
    <>( /\ halving_loop.pc = "done"
        /\ halving_loop.storage_cache_limit =
              StorageCacheLimit(parse_mem_spec(config.storage_page_cache_limit,
                                               mem_limit).bytes,
                                IsPercentSpec, mem_limit) )

\* C20 case: with a limit of zero the loop halved a positive absolute value all the
\* way down to zero and then left
C20_Witness ==
    /\ halving_loop.pc = "done"
    /\ ~IsPercentSpec
    /\ AbsoluteSpecValue > 0
    /\ mem_limit = 0
    /\ halving_loop.storage_cache_limit = 0

====
